---- MODULE Spec2Model ----
(***************************************************************************)
(* Model of main.py, the AI vision server of hidoggie/aistamp.             *)
(*                                                                         *)
(* The process has one startup routine (lifespan) which loads the          *)
(* reference images and sets up the Gemini model, and one request handler  *)
(* (recognize_stamp_object) which the framework runs concurrently for      *)
(* several requests; the handler has one suspension point, the await of    *)
(* MODEL.generate_content_async.                                           *)
(***************************************************************************)
EXTENDS Integers, Sequences, FiniteSets, TLC

\* ------------------------------------------------------------------ bounds
MaxEntries == 2          \* entries of the reference_images directory
NumRequests == 2         \* requests the framework runs concurrently

Requests == 1..NumRequests

None == "None"           \* Python's None

\* ------------------------------------------------- the environment's inputs
\* Directory names an object directory can have, and the name of a plain file.
ObjectNames == {"stamp_1", "stamp_9", "page_1_img_1.jpg"}
FileNames == {"README.txt"}

\* Names of the shape page_<digits>_img_<digits>.jpg
PageImgNames == {"page_1_img_1.jpg"}

\* What item_dir.glob("*.jpg") can yield: a file that opens as an image, or
\* a readable file followed by one that makes Image.open raise.
JpgListings == {<<"good.jpg">>, <<"good.jpg", "corrupt.jpg">>}

RECURSIVE SeqsUpTo(_, _)
SeqsUpTo(S, n) ==
    IF n = 0 THEN {<<>>}
    ELSE LET shorter == SeqsUpTo(S, n - 1)
         IN  shorter \cup {Append(s, x) : s \in {t \in shorter : Len(t) = n - 1}, x \in S}

DirEntries ==
    {[name |-> n, is_dir |-> TRUE, jpgs |-> j] : n \in ObjectNames, j \in JpgListings}
    \cup {[name |-> n, is_dir |-> FALSE, jpgs |-> <<>>] : n \in FileNames}

\* The listings reference_dir.iterdir() can produce: names in a directory
\* are distinct.
Listings ==
    {l \in SeqsUpTo(DirEntries, MaxEntries) :
        \A i, j \in 1..Len(l) : i # j => l[i].name # l[j].name}

\* The reference directory: missing, or a listing.
Missing == [exists |-> FALSE, entries |-> <<>>]
FileSystems == {Missing} \cup {[exists |-> TRUE, entries |-> l] : l \in Listings}

\* ------------------------------------------------------------ configuration
\* main.py:71-78
OBJECT_TO_PLANET_MAP ==
    [n \in {"stamp_1", "stamp_2", "stamp_3", "stamp_4", "stamp_5"} |->
        CASE n = "stamp_1" -> "earth"
          [] n = "stamp_2" -> "mars"
          [] n = "stamp_3" -> "jupiter"
          [] n = "stamp_4" -> "saturn"
          [] n = "stamp_5" -> "neptune"]

\* ------------------------------------------------------------------- state
VARIABLES
    reference_dir,          \* the reference_images directory on disk
    lifespanPc,             \* "start" | "loop" | "serving"
    iterIndex,              \* position of the for loop over iterdir()
    REFERENCE_IMAGES,       \* dict, as the sequence of its items in insertion order
    MODEL,                  \* None or the Gemini model handle
    INITIALIZATION_ERROR,   \* None or the recorded error string
    planetMap,              \* the module global OBJECT_TO_PLANET_MAP
    req                     \* per request: the handler's position and locals

vars == <<reference_dir, lifespanPc, iterIndex, REFERENCE_IMAGES, MODEL,
          INITIALIZATION_ERROR, planetMap, req>>

globals == <<REFERENCE_IMAGES, MODEL, INITIALIZATION_ERROR, planetMap>>


\* ---------------------------------------------------------------- startup
\* Image.open(image_path), main.py:40: a corrupt file makes it raise.
CanOpen(jpg) == jpg = "good.jpg"

OpenedImage(jpg) == <<"Image", jpg>>

\* The inner loop of main.py:38-40 over item_dir.glob("*.jpg").
LoadImages(jpgs) == [i \in 1..Len(jpgs) |-> OpenedImage(jpgs[i])]

LoadRaises(jpgs) == \E i \in 1..Len(jpgs) : ~CanOpen(jpgs[i])

\* f"[{type(e).__name__}] {e}", main.py:53: never the empty string.
ErrorString(e) ==
    CASE e = "FileNotFoundError" -> "[FileNotFoundError] No such file or directory: reference_images"
      [] e = "UnidentifiedImageError" -> "[UnidentifiedImageError] cannot identify image file"
      [] e = "ModelSetupError" -> "[Exception] model setup failed"

\* except Exception as e, main.py:52-54, followed by the yield of line 55.
LifespanExcept(e) ==
    /\ INITIALIZATION_ERROR' = ErrorString(e)
    /\ lifespanPc' = "serving"

\* main.py:31-35: bind REFERENCE_IMAGES, then open the directory iterator.
LifespanStart ==
    /\ lifespanPc = "start"
    /\ REFERENCE_IMAGES' = <<>>
    /\ IF reference_dir.exists
       THEN /\ lifespanPc' = "loop"
            /\ iterIndex' = 1
            /\ UNCHANGED INITIALIZATION_ERROR
       ELSE /\ LifespanExcept("FileNotFoundError")
            /\ UNCHANGED iterIndex
    /\ UNCHANGED <<reference_dir, MODEL, planetMap, req>>

\* One iteration of the for loop, main.py:35-51.  The model setup of
\* lines 48-51 is indented into the loop body, so it runs once per entry.
LifespanIter(setupOk) ==
    /\ lifespanPc = "loop"
    /\ iterIndex <= Len(reference_dir.entries)
    /\ LET item_dir == reference_dir.entries[iterIndex]
           loaded == IF item_dir.is_dir
                     THEN Append(REFERENCE_IMAGES,
                                 [item_name |-> item_dir.name,
                                  images |-> LoadImages(item_dir.jpgs)])
                     ELSE REFERENCE_IMAGES
       IN  IF item_dir.is_dir /\ LoadRaises(item_dir.jpgs)
           THEN /\ LifespanExcept("UnidentifiedImageError")
                /\ UNCHANGED <<REFERENCE_IMAGES, MODEL, iterIndex>>
           ELSE /\ REFERENCE_IMAGES' = loaded
                /\ IF setupOk
                   THEN /\ MODEL' = "gemini-1.5-pro-flash"
                        /\ iterIndex' = iterIndex + 1
                        /\ UNCHANGED <<lifespanPc, INITIALIZATION_ERROR>>
                   ELSE /\ LifespanExcept("ModelSetupError")
                        /\ UNCHANGED <<MODEL, iterIndex>>
    /\ UNCHANGED <<reference_dir, planetMap, req>>

\* The for loop is exhausted: fall out of the try and yield, main.py:55.
LifespanYield ==
    /\ lifespanPc = "loop"
    /\ iterIndex > Len(reference_dir.entries)
    /\ lifespanPc' = "serving"
    /\ UNCHANGED <<reference_dir, iterIndex, REFERENCE_IMAGES, MODEL,
                   INITIALIZATION_ERROR, planetMap, req>>


\* ------------------------------------------------------- request payloads
\* A Python str is the sequence of its characters.  The characters used:
\*   "d"  the text of a data-URL prefix (data:image/jpeg;base64)
\*   ","  the comma
\*   "J"  a base64 group encoding the bytes of a JPEG file
\*   "T"  a base64 group encoding bytes that are no image
\*   "?"  a base64 group with incorrect padding
PyStr(s) == [type |-> "str", str |-> s, num |-> 0]
PyNone == [type |-> "NoneType", str |-> <<>>, num |-> 0]
PyInt(n) == [type |-> "int", str |-> <<>>, num |-> n]

\* The values payload.get("image") can have.
PayloadImages ==
    { PyNone, PyStr(<<>>), PyInt(7),
      PyStr(<<"d", ",", "J">>), PyStr(<<"J">>),
      PyStr(<<"d", ",", "T">>), PyStr(<<"d", ",", "?">>) }

\* A presence test that only looks for None.
Truthy_OnlyNoneIsMissing(v) == v.type # "NoneType"

\* Python truthiness, as used by `if not user_image_b64`, main.py:87.
Truthy(v) ==
    CASE v.type = "NoneType" -> FALSE
      [] v.type = "str" -> Len(v.str) > 0
      [] v.type = "int" -> v.num # 0

\* str.split(sep), main.py:91.
RECURSIVE Split(_, _)
Split(s, sep) ==
    IF \A i \in 1..Len(s) : s[i] # sep
    THEN <<s>>
    ELSE LET k == CHOOSE i \in 1..Len(s) :
                      s[i] = sep /\ \A j \in 1..(i - 1) : s[j] # sep
         IN  <<SubSeq(s, 1, k - 1)>> \o Split(SubSeq(s, k + 1, Len(s)), sep)

\* base64.b64decode, main.py:91: each well-formed group decodes to a chunk
\* of bytes; a string with a malformed group raises binascii.Error.
Base64Groups == {"J", "T"}

DecodeGroup(c) == IF c = "J" THEN "JPEG-bytes" ELSE "text-bytes"

B64Raises(s) == \E i \in 1..Len(s) : s[i] \notin Base64Groups

B64Decode(s) == [i \in 1..Len(s) |-> DecodeGroup(s[i])]

\* Image.open(io.BytesIO(bytes)), main.py:92: reads the header only.
ImageOpenRaises(bytes) == Len(bytes) = 0 \/ bytes[1] # "JPEG-bytes"

ImageOpen(bytes) == <<"Image", bytes>>

NoImage == <<"Image", <<>>>>

\* Lines 91-92 of the try block: the exception raised, or None, and the
\* decoded user_image.
DecodeUserImage(v) ==
    IF v.type # "str"
    THEN [raised |-> "AttributeError: object has no attribute 'split'", user_image |-> NoImage]
    ELSE LET parts == Split(v.str, ",")
         IN  IF Len(parts) < 2
             THEN [raised |-> "IndexError: list index out of range", user_image |-> NoImage]
             ELSE IF B64Raises(parts[2])
             THEN [raised |-> "binascii.Error: Incorrect padding", user_image |-> NoImage]
             ELSE IF ImageOpenRaises(B64Decode(parts[2]))
             THEN [raised |-> "UnidentifiedImageError: cannot identify image file", user_image |-> NoImage]
             ELSE [raised |-> None, user_image |-> ImageOpen(B64Decode(parts[2]))]


\* --------------------------------------------------------- request handler
Absent == "<absent>"     \* a key the JSON body does not have

\* raise HTTPException(status_code=code, detail=detail)
HTTPException(code, detail) ==
    [code |-> code, status |-> Absent, planet_id |-> Absent,
     detail |-> detail, description |-> Absent]

\* return {"status": "success", "planet_id": name}, main.py:114
SuccessBody(name) ==
    [code |-> 200, status |-> "success", planet_id |-> name,
     detail |-> Absent, description |-> Absent]

\* return {"status": "no_match"}, main.py:120
NoMatchBody ==
    [code |-> 200, status |-> "no_match", planet_id |-> Absent,
     detail |-> Absent, description |-> Absent]

NoResponse ==
    [code |-> 0, status |-> Absent, planet_id |-> Absent,
     detail |-> Absent, description |-> Absent]

\* f"...: {INITIALIZATION_ERROR}", main.py:84
InitErrorDetail(err) == <<"server initialization error: ", err>>

\* main.py:88
NoImageDetail == <<"no image data", "">>

\* str(e), main.py:123
ExceptionDetail(e) == <<"", e>>

\* What the external model can answer: a text, or an exception.
NoMatchText == [tag |-> "NO_MATCH", name |-> ""]
MatchText(n) == [tag |-> "MATCH", name |-> n]
GeminiTexts == {NoMatchText} \cup {MatchText(n) : n \in ObjectNames}
GeminiErrors == {"DeadlineExceeded: 504 timeout"}

NoText == [tag |-> "", name |-> ""]

\* re.search(r"\[MATCH:\s*(page_\d+_img_\d+\.jpg)\]", text), main.py:110:
\* group(1) of the match, or None.
ReSearch(text) ==
    IF text.tag = "MATCH" /\ text.name \in PageImgNames
    THEN text.name
    ELSE None

\* main.py:104-106: a header and the images of every reference object.
RECURSIVE ReferenceParts(_)
ReferenceParts(items) ==
    IF items = <<>>
    THEN <<>>
    ELSE <<<<"text", items[1].item_name>>>> \o items[1].images
         \o ReferenceParts(Tail(items))

\* main.py:95-106
PromptParts(user_image) ==
    <<<<"text", "instructions">>, user_image>> \o ReferenceParts(REFERENCE_IMAGES)

\* The handler's locals before the request arrives.
Idle ==
    [pc |-> "idle", image |-> PyNone, user_image |-> NoImage, prompt |-> <<>>,
     calls |-> 0, answer |-> NoText, raised |-> None, response |-> NoResponse]

\* A handler that does not look at the initialization error.
InitGate_Missing == FALSE

\* `if INITIALIZATION_ERROR:`, main.py:83
InitGate == INITIALIZATION_ERROR # None

\* The handler returns or raises an HTTPException: the request is answered.
Respond(r, locals, response) ==
    /\ req' = [req EXCEPT ![r] = [locals EXCEPT !.pc = "done", !.response = response]]
    /\ UNCHANGED globals

\* An except clause that records the error in the process-wide flag, the
\* way the startup's except clause does.
HandlerExcept_RecordsInGlobal(r, locals, e) ==
    /\ req' = [req EXCEPT ![r] = [locals EXCEPT !.pc = "done", !.raised = e,
                                     !.response = HTTPException(500, ExceptionDetail(e))]]
    /\ INITIALIZATION_ERROR' = e
    /\ UNCHANGED <<REFERENCE_IMAGES, MODEL, planetMap>>

\* except Exception as e: raise HTTPException(500, str(e)), main.py:121-123
HandlerExcept(r, locals, e) ==
    /\ req' = [req EXCEPT ![r] = [locals EXCEPT !.pc = "done", !.raised = e,
                                     !.response = HTTPException(500, ExceptionDetail(e))]]
    /\ UNCHANGED globals

\* main.py:83-109: the handler from its entry to the await of the model.
Receive(r, image) ==
    /\ lifespanPc = "serving"
    /\ req[r].pc \in {"idle", "done"}
    /\ LET locals == [Idle EXCEPT !.image = image]
           decoded == DecodeUserImage(image)
       IN  IF InitGate
           THEN Respond(r, locals, HTTPException(500, InitErrorDetail(INITIALIZATION_ERROR)))
           ELSE IF ~Truthy(image)
           THEN Respond(r, locals, HTTPException(400, NoImageDetail))
           ELSE IF decoded.raised # None
           THEN HandlerExcept(r, locals, decoded.raised)
           ELSE LET built == [locals EXCEPT !.user_image = decoded.user_image,
                                            !.prompt = PromptParts(decoded.user_image)]
                IN  IF MODEL = None
                    THEN HandlerExcept(r, built,
                            "AttributeError: 'NoneType' object has no attribute 'generate_content_async'")
                    ELSE /\ req' = [req EXCEPT ![r] =
                                       [built EXCEPT !.pc = "awaiting", !.calls = 1]]
                         /\ UNCHANGED globals
    /\ UNCHANGED <<reference_dir, lifespanPc, iterIndex>>

\* main.py:109-120: the model answers with a text.
ModelAnswers(r, text) ==
    /\ req[r].pc = "awaiting"
    /\ LET locals == [req[r] EXCEPT !.answer = text]
           matched_object_name == ReSearch(text)
       IN  IF matched_object_name # None
           THEN Respond(r, locals, SuccessBody(matched_object_name))
           ELSE Respond(r, locals, NoMatchBody)
    /\ UNCHANGED <<reference_dir, lifespanPc, iterIndex>>

\* main.py:109, 121-123: the model call raises or times out.
ModelRaises(r, e) ==
    /\ req[r].pc = "awaiting"
    /\ HandlerExcept(r, req[r], e)
    /\ UNCHANGED <<reference_dir, lifespanPc, iterIndex>>

\* ----------------------------------------------------------- specification
Init ==
    /\ reference_dir \in FileSystems
    /\ lifespanPc = "start"
    /\ iterIndex = 0
    /\ REFERENCE_IMAGES = <<>>      \* unbound until main.py:31; nothing reads it before
    /\ MODEL = None                 \* main.py:22
    /\ INITIALIZATION_ERROR = None  \* main.py:23
    /\ planetMap = OBJECT_TO_PLANET_MAP
    /\ req = [r \in Requests |-> Idle]

Next ==
    \/ LifespanStart
    \/ \E setupOk \in BOOLEAN : LifespanIter(setupOk)
    \/ LifespanYield
    \/ \E r \in Requests, image \in PayloadImages : Receive(r, image)
    \/ \E r \in Requests, text \in GeminiTexts : ModelAnswers(r, text)
    \/ \E r \in Requests, e \in GeminiErrors : ModelRaises(r, e)

Spec == Init /\ [][Next]_vars


\* ------------------------------------------------------------------ claims
Done(r) == req[r].pc = "done"

InitOk == INITIALIZATION_ERROR = None

CatalogNames == {REFERENCE_IMAGES[i].item_name : i \in 1..Len(REFERENCE_IMAGES)}

\* The base64 text of an image field: what follows the comma of a data-URL,
\* or the whole field when it has no prefix.
Base64Part(s) ==
    LET parts == Split(s, ",")
    IN  IF Len(parts) >= 2 THEN parts[2] ELSE parts[1]

\* The field holds the base64 of an image, with or without the prefix.
ValidImageField(v) ==
    /\ v.type = "str"
    /\ Len(v.str) > 0
    /\ ~B64Raises(Base64Part(v.str))
    /\ ~ImageOpenRaises(B64Decode(Base64Part(v.str)))

\* The payload has no image field, or an empty one.
MissingImageField(v) == v = PyNone \/ v = PyStr(<<>>)

\* The field is present but is no base64 of an image.
MalformedImageField(v) == ~MissingImageField(v) /\ ~ValidImageField(v)

FatalInitResponse == HTTPException(500, InitErrorDetail(INITIALIZATION_ERROR))

\* C1: a failure during startup still ends with the process serving and the
\* error recorded; from then on every request, whatever its payload, is
\* answered with the 500 fatal-init response without a model call, and the
\* flag is never cleared.
C1_FatalInitGatesEveryRequest ==
    /\ [](/\ (~InitOk) => lifespanPc = "serving"
          /\ (lifespanPc = "serving"
                /\ (~reference_dir.exists \/ iterIndex <= Len(reference_dir.entries)))
             => ~InitOk
          /\ \A r \in Requests :
                (~InitOk /\ req[r].pc # "idle")
                => /\ Done(r)
                   /\ req[r].response = FatalInitResponse
                   /\ req[r].calls = 0)
    /\ [][(~InitOk) => INITIALIZATION_ERROR' = INITIALIZATION_ERROR]_vars

C1_Witness ==
    \E r \in Requests :
        /\ ~InitOk
        /\ MODEL # None
        /\ Done(r)
        /\ ValidImageField(req[r].image)
        /\ req[r].response.code = 500

\* C2: a success response carries the planet that OBJECT_TO_PLANET_MAP
\* assigns to the matched object, and that object is in the catalog.
C2_SuccessPlanetComesFromPlanetMap ==
    \A r \in Requests :
        (Done(r) /\ req[r].response.status = "success")
        => /\ req[r].answer.name \in CatalogNames
           /\ req[r].answer.name \in DOMAIN planetMap
           /\ req[r].response.planet_id = planetMap[req[r].answer.name]

\* C3: when the model names a catalog object that PlanetMap does not map,
\* the response is a no_match that carries a description, never a success.
C3_UnmappedMatchIsDescribedNoMatch ==
    \A r \in Requests :
        (/\ Done(r)
         /\ req[r].answer.tag = "MATCH"
         /\ req[r].answer.name \in CatalogNames
         /\ req[r].answer.name \notin DOMAIN planetMap)
        => /\ req[r].response.status = "no_match"
           /\ req[r].response.description # Absent

\* C4: with initialization successful, a present but malformed image field
\* is answered with 400, never 500, without a model call and without a
\* write to the process-wide state.
C4_MalformedImageIs400 ==
    /\ [](\A r \in Requests :
            (InitOk /\ Done(r) /\ MalformedImageField(req[r].image))
            => /\ req[r].response.code = 400
               /\ req[r].calls = 0)
    /\ [][\A r \in Requests :
            (req'[r] # req[r] /\ MalformedImageField(req'[r].image))
            => UNCHANGED globals]_vars

\* C5: with initialization successful, an absent or empty image field is
\* answered with 400 and no model call; with the initialization error set
\* the 500 fatal-init response takes precedence.
C5_MissingImageIs400 ==
    \A r \in Requests :
        (req[r].pc # "idle" /\ MissingImageField(req[r].image))
        => /\ Done(r)
           /\ req[r].calls = 0
           /\ req[r].response =
                IF InitOk THEN HTTPException(400, NoImageDetail)
                ELSE FatalInitResponse

C5_Witness ==
    \E r1, r2 \in Requests :
        /\ InitOk
        /\ Done(r1) /\ req[r1].image = PyNone /\ req[r1].response.code = 400
        /\ Done(r2) /\ req[r2].image = PyStr(<<>>) /\ req[r2].response.code = 400

\* C6: a valid image reaches the matcher decoded to the same image whether
\* the field is a data-URL or bare base64; a field without the prefix is
\* not turned into an error for lacking it.
C6_BareBase64Accepted ==
    \A r \in Requests :
        (InitOk /\ req[r].pc # "idle" /\ ValidImageField(req[r].image))
        => /\ req[r].user_image = ImageOpen(B64Decode(Base64Part(req[r].image.str)))
           /\ req[r].raised # "IndexError: list index out of range"

\* C7: with an empty catalog a request with a valid image never ends in
\* success, and ends in no_match whatever the model answers.
C7_EmptyCatalogNeverMatches ==
    \A r \in Requests :
        (/\ InitOk
         /\ REFERENCE_IMAGES = <<>>
         /\ Done(r)
         /\ ValidImageField(req[r].image))
        => /\ req[r].response.status # "success"
           /\ (req[r].answer # NoText => req[r].response = NoMatchBody)

\* C8: a request that passes the init and input checks (its image field is
\* valid and was decoded) calls the model exactly once; when the call raises, the answer is a 500 with the
\* underlying message.
C8_ModelInvokedExactlyOnce ==
    \A r \in Requests :
        (/\ InitOk
         /\ Done(r)
         /\ ValidImageField(req[r].image)
         /\ req[r].user_image # NoImage)
        => /\ req[r].calls = 1
           /\ (req[r].raised # None
                 => req[r].response = HTTPException(500, ExceptionDetail(req[r].raised)))

\* C9: once startup has completed no step of any request, in any
\* interleaving, writes the catalog, PlanetMap, the model handle or the
\* initialization-error flag; the flag changes only during startup, before
\* any request has been accepted.
C9_HandlersNeverWriteGlobals ==
    [][/\ (lifespanPc = "serving") => UNCHANGED globals
       /\ (INITIALIZATION_ERROR' # INITIALIZATION_ERROR)
            => /\ lifespanPc # "serving"
               /\ \A r \in Requests : req[r].pc = "idle" /\ req'[r].pc = "idle"]_vars

C9_Witness ==
    \E r1, r2 \in Requests :
        /\ r1 # r2
        /\ req[r1].pc = "awaiting"
        /\ Done(r2)
        /\ req[r2].raised # None

\* C10: when startup has completed with the flag unset, the model handle is
\* set and the catalog holds every object directory.
C10_InitOkImpliesModelReady ==
    (lifespanPc = "serving" /\ InitOk)
    => /\ MODEL # None
       /\ CatalogNames = {reference_dir.entries[i].name :
                            i \in {j \in 1..Len(reference_dir.entries) :
                                     reference_dir.entries[j].is_dir}}

====
